---- MODULE Spec2Model ----
(***************************************************************************)
(* Human-in-the-loop workflow engine of deal_copilot/api/main.py:          *)
(* WorkflowState, the in-memory stores, the SSE stream generator with its  *)
(* worker task and queue, and the control endpoints continue / refine /    *)
(* skip / cancel.                                                          *)
(*                                                                         *)
(* Every endpoint handler runs on the one asyncio event loop and has no    *)
(* await between its reads and writes of the workflow state, so a handler  *)
(* is one atomic action.  The stream generator is cut at its suspension    *)
(* points (each yield, and the await on wait_for); the step executor runs  *)
(* on a pool thread and reaches the loop only through callbacks that the   *)
(* loop runs in FIFO order.                                                *)
(***************************************************************************)
EXTENDS Integers, Sequences, FiniteSets, TLC

\* ---------------------------------------------------------------- bounds
MaxRequests == 9    \* endpoint calls of a run, of every kind together
MaxStreams == 4     \* of them, subscriptions to /stream
MaxRequestsAll == 4 \* endpoint calls where callers call anything (Spec, SpecStream)
MaxStreamsAll == 2  \* of them, subscriptions to /stream
MaxClock == 1       \* clock seconds 0..MaxClock (the id is the second)
MaxFrags == 2       \* fragments one executor run emits at most
MaxFragsAll == 1    \* of them, where several workflows and streams run (Spec)

\* ------------------------------------------------------------- constants
ALL_STEPS == <<"deep_research", "data_room", "risk_scanner", "ic_memo">>

AllStepNames == {ALL_STEPS[i] : i \in 1..Len(ALL_STEPS)}

\* step_name path parameters tried by the callers of refine / skip / output
StepArgs == AllStepNames \cup {"completed"}

\* Python None, and an executor result that is falsy (an empty dict)
None == 0
EmptyResult == -1

\* `if output:` / truthiness of an executor result
Truthy(output) == output > 0

\* form values of run_deep_research / run_data_room and str.lower() on them
FormValues == {"True", "false"}

lower(s) == IF s = "True" THEN "true" ELSE s

\* uploads of one start call: the file name extensions
Uploads == {<<>>, <<".pdf">>, <<".txt">>}

\* extensions start_workflow keeps
KnownExts == {".pdf", ".xlsx", ".xls", ".pptx", ".ppt", ".docx", ".doc"}

WorkflowIds == 0..MaxClock

\* feedback texts of refine requests
Feedbacks == {1, 2}

VARIABLES
    clock,              \* datetime.now(), in seconds
    heap,               \* the WorkflowState objects, in creation order
    workflow_states,    \* workflow id -> index of its object in heap
    research_jobs,      \* workflow id -> job record (its "status" field)
    completed_reports,  \* workflow id -> final outputs
    gens,               \* the event_generator instances, in creation order
    calls,              \* endpoint calls so far that created no object
    response            \* the reply of the last endpoint call

vars == <<clock, heap, workflow_states, research_jobs, completed_reports,
          gens, calls, response>>

EmptyMap == [k \in {} |-> None]

\* d[k] = v for a Python dict d
Put(d, k, v) == [x \in DOMAIN d \cup {k} |-> IF x = k THEN v ELSE d[x]]

\* del d[k]
Del(d, k) == [x \in DOMAIN d \ {k} |-> d[x]]

\* d.get(k) / d.get(k, None)
Get(d, k) == IF k \in DOMAIN d THEN d[k] ELSE None

\* the reply to an endpoint call, kept with the call it answers
Reply(op, workflow_id, step_name, code, body) ==
    [op |-> op, workflow_id |-> workflow_id, step_name |-> step_name,
     code |-> code, body |-> body]

\* endpoint calls so far: the starts, the subscriptions and the others
Requests == Len(heap) + Len(gens) + calls

\* ------------------------------------------------------- WorkflowState
RECURSIVE processed_files(_)
processed_files(exts) ==
    IF exts = <<>> THEN <<>>
    ELSE (IF Head(exts) \in KnownExts THEN <<Head(exts)>> ELSE <<>>)
         \o processed_files(Tail(exts))

\* faulty variant: every step is listed whatever was selected
buildSteps_all(run_deep_research, run_data_room) == ALL_STEPS

buildSteps(run_deep_research, run_data_room) ==
    (IF run_deep_research THEN <<"deep_research">> ELSE <<>>)
    \o (IF run_data_room THEN <<"data_room">> ELSE <<>>)
    \o <<"risk_scanner", "ic_memo">>

initialStatus(name, run_deep_research, run_data_room) ==
    IF name = "deep_research" /\ ~run_deep_research THEN "skipped"
    ELSE IF name = "data_room" /\ ~run_data_room THEN "skipped"
    ELSE "pending"

WorkflowState(report_id, files, run_deep_research, run_data_room) ==
    LET has_files == Len(files) > 0
        rdr == run_deep_research
        rdroom == run_data_room /\ has_files
    IN [report_id |-> report_id,
        steps |-> buildSteps(rdr, rdroom),
        current_step |-> 0,
        step_status |-> [n \in AllStepNames |-> initialStatus(n, rdr, rdroom)],
        step_outputs |-> EmptyMap,
        awaiting_review |-> FALSE,
        cancelled |-> FALSE]

get_current_step_name(state) ==
    IF state.current_step < Len(state.steps)
    THEN state.steps[state.current_step + 1]
    ELSE "completed"

\* ------------------------------------------------------ start_workflow
start_workflow(now, uploads, run_deep_research, run_data_room) ==
    /\ Requests < MaxRequests
    /\ now >= clock
    /\ clock' = now
    /\ LET workflow_id == now
           files == processed_files(uploads)
           should_run_deep_research == lower(run_deep_research) = "true"
           should_run_data_room ==
               lower(run_data_room) = "true" /\ Len(files) > 0
           state == WorkflowState(workflow_id, files,
                                  should_run_deep_research,
                                  should_run_data_room)
       IN /\ heap' = Append(heap, state)
          /\ workflow_states' = Put(workflow_states, workflow_id, Len(heap) + 1)
          /\ research_jobs' = Put(research_jobs, workflow_id, "processing")
          /\ response' = Reply("start", workflow_id, "", 200, None)
    /\ UNCHANGED <<completed_reports, gens, calls>>

\* --------------------------------------- stream_workflow_step: the generator
Event(kind, content) == [event |-> kind, content |-> content]

\* a fresh event_generator() closed over the WorkflowState object `ref`
NewGenerator(ref) ==
    [state |-> ref,             \* the captured `state` object
     pc |-> "created",          \* yield_status, wait_for, yield_chunk, closed
     step_name |-> "",
     stream_queue |-> <<>>,
     output_task |-> "none",    \* none, scheduled, awaiting_executor, done, exception, cancelled
     result |-> None,           \* the value the task returned
     worker |-> "idle",         \* the pool thread: idle, running, finished
     emitted |-> 0,             \* stream_callback calls made by the executor
     feedback |-> None,         \* the feedback handed to the executor
     inputs |-> EmptyMap,       \* the earlier outputs handed to the executor
     events |-> <<>>]           \* SSE events yielded so far

\* The handler returns the generator and the server iterates it at once;
\* nothing reads the generator before its first iteration, which reads the
\* current step name and yields the status event.
stream_workflow_step(workflow_id) ==
    /\ Requests < MaxRequests
    /\ IF workflow_id \notin DOMAIN workflow_states
       THEN /\ response' = Reply("stream", workflow_id, "", 404, None)
            /\ calls' = calls + 1
            /\ UNCHANGED gens
       ELSE /\ Len(gens) < MaxStreams
            /\ LET ref == workflow_states[workflow_id]
                   gen == NewGenerator(ref)
               IN gens' = Append(gens, [gen EXCEPT
                     !.step_name = get_current_step_name(heap[ref]),
                     !.events = Append(@, Event("status", None)),
                     !.pc = "yield_status"])
            /\ response' = Reply("stream", workflow_id, "", 200, None)
            /\ UNCHANGED calls
    /\ UNCHANGED <<clock, heap, workflow_states, research_jobs, completed_reports>>

\* the generator yields its last event and returns: its locals (the queue
\* and what is left in it, the task's result) are dropped with it
close(gen, last_event) ==
    [gen EXCEPT !.events = Append(@, Event(last_event, None)),
                !.pc = "closed",
                !.stream_queue = <<>>,
                !.result = None,
                !.emitted = 0,
                !.inputs = EmptyMap]

\* Task.cancel(): no effect on a task that is already done
task_cancel(task) ==
    IF task \in {"scheduled", "awaiting_executor"} THEN "cancelled" ELSE task

\* faulty variant: the loop does not look at the cancelled flag
loop_top_unchecked(gen) == [gen EXCEPT !.pc = "wait_for"]

\* faulty variant: the cancelled branch yields its error event and, with no
\* return, goes on to the await
loop_top_no_return(gen) ==
    IF heap[gen.state].cancelled
    THEN [gen EXCEPT !.output_task = task_cancel(@),
                     !.events = Append(@, Event("error", None)),
                     !.pc = "wait_for"]
    ELSE [gen EXCEPT !.pc = "wait_for"]

\* top of `while True`: the cancelled check, then the await on wait_for
loop_top(gen) ==
    IF heap[gen.state].cancelled
    THEN close([gen EXCEPT !.output_task = task_cancel(@)], "error")
    ELSE [gen EXCEPT !.pc = "wait_for"]

\* faulty variant: the output is stored but review is not awaited
store_output_no_review(state, step_name, output) ==
    IF Truthy(output)
    THEN [state EXCEPT !.step_outputs = Put(@, step_name, output),
                       !.step_status = Put(@, step_name, "completed")]
    ELSE state

\* `if output:` store the output, mark completed, await review
store_output(state, step_name, output) ==
    IF Truthy(output)
    THEN [state EXCEPT !.step_outputs = Put(@, step_name, output),
                       !.step_status = Put(@, step_name, "completed"),
                       !.awaiting_review = TRUE]
    ELSE state

\* after the loop: `output = await output_task`, store, yield step_complete;
\* a task that raised re-raises here and the handler yields an error event
after_loop(g, gen) ==
    IF gen.output_task = "exception"
    THEN /\ gens' = [gens EXCEPT ![g] = close(gen, "error")]
         /\ UNCHANGED heap
    ELSE /\ heap' = [heap EXCEPT ![gen.state] =
                        store_output(@, gen.step_name, gen.result)]
         /\ gens' = [gens EXCEPT ![g] = close(gen, "step_complete")]

\* resumed after the status event: create the task for the step and enter
\* the loop; a name with no executor ("completed") skips the loop
gen_create_task(g) ==
    /\ gens[g].pc = "yield_status"
    /\ IF gens[g].step_name \in AllStepNames
       THEN /\ gens' = [gens EXCEPT ![g] =
                          loop_top([gens[g] EXCEPT !.output_task = "scheduled"])]
            /\ UNCHANGED heap
       ELSE after_loop(g, gens[g])
    /\ UNCHANGED <<clock, workflow_states, research_jobs, completed_reports,
                   calls, response>>

\* wait_for returns an item of the queue
gen_receive(g) ==
    /\ gens[g].pc = "wait_for"
    /\ gens[g].stream_queue # <<>>
    /\ LET chunk == Head(gens[g].stream_queue)
           gen == [gens[g] EXCEPT !.stream_queue = Tail(@)]
       IN IF chunk = None
          THEN after_loop(g, gen)
          ELSE /\ gens' = [gens EXCEPT ![g] = [gen EXCEPT
                              !.events = Append(@, Event("chunk", chunk)),
                              !.pc = "yield_chunk"]]
               /\ UNCHANGED heap
    /\ UNCHANGED <<clock, workflow_states, research_jobs, completed_reports,
                   calls, response>>

task_done(task) == task \in {"done", "exception", "cancelled"}

\* wait_for times out on an empty queue
gen_timeout(g) ==
    /\ gens[g].pc = "wait_for"
    /\ gens[g].stream_queue = <<>>
    /\ IF task_done(gens[g].output_task)
       THEN after_loop(g, gens[g])
       ELSE /\ gens' = [gens EXCEPT ![g] = loop_top(gens[g])]
            /\ UNCHANGED heap
    /\ UNCHANGED <<clock, workflow_states, research_jobs, completed_reports,
                   calls, response>>

\* resumed after a chunk event: back to the top of the loop
gen_resume(g) ==
    /\ gens[g].pc = "yield_chunk"
    /\ gens' = [gens EXCEPT ![g] = loop_top(gens[g])]
    /\ UNCHANGED <<clock, heap, workflow_states, research_jobs,
                   completed_reports, calls, response>>

\* ------------------------------------------- run_*_step_streaming: the task
\* The executor's thread reaches the loop only through call_soon_threadsafe:
\* stream_callback schedules stream_queue.put(chunk), and the executor's
\* return (or exception) schedules the wake-up of the task, which puts the
\* sentinel and returns without suspending.  The loop runs these in the
\* order they were scheduled and nothing reads a callback before it has
\* run, so each is modelled at the point where the loop runs it.

\* d.get(k, default)
GetOr(d, k, default) == IF k \in DOMAIN d THEN d[k] ELSE default

\* faulty variant: every executor is handed the outputs of all the steps
executor_inputs_all(state, step_name) ==
    [n \in AllStepNames |-> GetOr(state.step_outputs, n, EmptyResult)]

\* the outputs of earlier steps among the arguments of the executor call,
\* read with `state.step_outputs.get(name, {})` before run_in_executor
executor_inputs(state, step_name) ==
    LET read == IF step_name = "risk_scanner"
                THEN {"deep_research", "data_room"}
                ELSE IF step_name = "ic_memo"
                THEN {"deep_research", "data_room", "risk_scanner"}
                ELSE {}
    IN [n \in read |-> GetOr(state.step_outputs, n, EmptyResult)]

\* the feedback among the arguments of the executor call: the executors are
\* called with the company data and the outputs of earlier steps only
executor_feedback(state, step_name) == None

\* first step of the task: up to `await loop.run_in_executor(...)`
task_start(g) ==
    /\ gens[g].output_task = "scheduled"
    /\ gens' = [gens EXCEPT ![g].output_task = "awaiting_executor",
                            ![g].worker = "running",
                            ![g].feedback = executor_feedback(
                                heap[gens[g].state], gens[g].step_name),
                            ![g].inputs = executor_inputs(
                                heap[gens[g].state], gens[g].step_name)]
    /\ UNCHANGED <<clock, heap, workflow_states, research_jobs,
                   completed_reports, calls, response>>

\* faulty variant: the fragment is put at the head of the queue
stream_callback_lifo(g) ==
    /\ gens[g].worker = "running"
    /\ gens[g].pc # "closed"
    /\ gens[g].emitted < MaxFrags
    /\ gens' = [gens EXCEPT
                  ![g].emitted = @ + 1,
                  ![g].stream_queue = <<gens[g].emitted + 1>> \o @]
    /\ UNCHANGED <<clock, heap, workflow_states, research_jobs,
                   completed_reports, calls, response>>

\* the executor calls stream_callback(chunk); once the generator has
\* returned nothing reads the queue any more and the put is not modelled
stream_callback(g) ==
    /\ gens[g].worker = "running"
    /\ gens[g].pc # "closed"
    /\ gens[g].emitted < MaxFrags
    /\ gens' = [gens EXCEPT
                  ![g].emitted = @ + 1,
                  ![g].stream_queue = Append(@, gens[g].emitted + 1)]
    /\ UNCHANGED <<clock, heap, workflow_states, research_jobs,
                   completed_reports, calls, response>>

\* what an executor run of generator g may return
Results(g) == {EmptyResult, g}

\* the executor returns: the task (unless cancelled meanwhile) puts the
\* sentinel and finishes with the report
executor_return(g, report) ==
    /\ gens[g].worker = "running"
    /\ gens' = [gens EXCEPT ![g] =
                  IF gens[g].output_task = "awaiting_executor"
                  THEN [@ EXCEPT !.worker = "finished",
                                 !.stream_queue = Append(@, None),
                                 !.output_task = "done",
                                 !.result = report]
                  ELSE [@ EXCEPT !.worker = "finished"]]
    /\ UNCHANGED <<clock, heap, workflow_states, research_jobs,
                   completed_reports, calls, response>>

\* the executor raises: the task (unless cancelled meanwhile) ends with the
\* exception and puts no sentinel
executor_raise(g) ==
    /\ gens[g].worker = "running"
    /\ gens' = [gens EXCEPT ![g] =
                  IF gens[g].output_task = "awaiting_executor"
                  THEN [@ EXCEPT !.worker = "finished",
                                 !.output_task = "exception"]
                  ELSE [@ EXCEPT !.worker = "finished"]]
    /\ UNCHANGED <<clock, heap, workflow_states, research_jobs,
                   completed_reports, calls, response>>

\* ----------------------------------------------------- read endpoints
get_workflow_status(workflow_id) ==
    /\ Requests < MaxRequests
    /\ calls' = calls + 1
    /\ response' = IF workflow_id \notin DOMAIN workflow_states
                   THEN Reply("status", workflow_id, "", 404, None)
                   ELSE Reply("status", workflow_id, "", 200, None)
    /\ UNCHANGED <<clock, heap, workflow_states, research_jobs,
                   completed_reports, gens>>

\* faulty variant: a missing output is answered with an empty value
get_step_output_default(workflow_id, step_name) ==
    /\ Requests < MaxRequests
    /\ calls' = calls + 1
    /\ response' =
         IF workflow_id \notin DOMAIN workflow_states
         THEN Reply("output", workflow_id, step_name, 404, None)
         ELSE Reply("output", workflow_id, step_name, 200,
                    Get(heap[workflow_states[workflow_id]].step_outputs,
                        step_name))
    /\ UNCHANGED <<clock, heap, workflow_states, research_jobs,
                   completed_reports, gens>>

get_step_output(workflow_id, step_name) ==
    /\ Requests < MaxRequests
    /\ calls' = calls + 1
    /\ response' =
         IF workflow_id \notin DOMAIN workflow_states
         THEN Reply("output", workflow_id, step_name, 404, None)
         ELSE LET state == heap[workflow_states[workflow_id]]
              IN IF step_name \notin DOMAIN state.step_outputs
                 THEN Reply("output", workflow_id, step_name, 404, None)
                 ELSE Reply("output", workflow_id, step_name, 200, state.step_outputs[step_name])
    /\ UNCHANGED <<clock, heap, workflow_states, research_jobs,
                   completed_reports, gens>>

\* -------------------------------------------------- control endpoints
\* the final outputs continue_workflow files under completed_reports
final_outputs(state) == [n \in AllStepNames |-> Get(state.step_outputs, n)]

\* faulty variant: the awaiting_review check left out
continue_allowed_unchecked(state) == TRUE

\* `if not state.awaiting_review: raise HTTPException(400)`
continue_allowed(state) == state.awaiting_review

\* faulty variant: the cursor is not moved
continue_update_no_advance(state) ==
    [state EXCEPT !.awaiting_review = FALSE]

\* faulty variant: awaiting_review is not cleared
continue_update_keeps_flag(state) ==
    [state EXCEPT !.current_step = @ + 1]

\* "Move to next step"
continue_update(state) ==
    [state EXCEPT !.current_step = @ + 1,
                  !.awaiting_review = FALSE]

continue_workflow(workflow_id) ==
    /\ Requests < MaxRequests
    /\ calls' = calls + 1
    /\ IF workflow_id \notin DOMAIN workflow_states
       THEN /\ response' = Reply("continue", workflow_id, "", 404, None)
            /\ UNCHANGED <<heap, research_jobs, completed_reports>>
       ELSE LET ref == workflow_states[workflow_id]
                state == heap[ref]
                next == continue_update(state)
            IN IF ~continue_allowed(state)
               THEN /\ response' = Reply("continue", workflow_id, "", 400, None)
                    /\ UNCHANGED <<heap, research_jobs, completed_reports>>
               ELSE /\ heap' = [heap EXCEPT ![ref] = next]
                    /\ response' = Reply("continue", workflow_id, "", 200, None)
                    /\ IF get_current_step_name(next) = "completed"
                       THEN /\ completed_reports' =
                                 Put(completed_reports, workflow_id,
                                     final_outputs(next))
                            /\ research_jobs' =
                                 Put(research_jobs, workflow_id, "completed")
                       ELSE UNCHANGED <<research_jobs, completed_reports>>
    /\ UNCHANGED <<clock, workflow_states, gens>>

\* `if step_name not in WorkflowState.ALL_STEPS: raise HTTPException(400)`
refine_allowed(state, step_name) == step_name \in AllStepNames

\* faulty variant: refine restarts the workflow at its first step
refine_update_rewinds(state, step_name, feedback) ==
    [state EXCEPT !.step_status = Put(@, step_name, "refining"),
                  !.awaiting_review = FALSE,
                  !.step_outputs = Del(@, step_name),
                  !.current_step = 0]

\* faulty variant: the stored output of the stage is kept
refine_update_keeps_output(state, step_name, feedback) ==
    [state EXCEPT !.step_status = Put(@, step_name, "refining"),
                  !.awaiting_review = FALSE]

\* the feedback is echoed in the reply and stored nowhere
refine_update(state, step_name, feedback) ==
    [state EXCEPT !.step_status = Put(@, step_name, "refining"),
                  !.awaiting_review = FALSE,
                  !.step_outputs = Del(@, step_name)]

refine_step(workflow_id, step_name, feedback) ==
    /\ Requests < MaxRequests
    /\ calls' = calls + 1
    /\ IF workflow_id \notin DOMAIN workflow_states
       THEN /\ response' = Reply("refine", workflow_id, step_name, 404, None)
            /\ UNCHANGED heap
       ELSE LET ref == workflow_states[workflow_id]
                state == heap[ref]
            IN IF ~refine_allowed(state, step_name)
               THEN /\ response' =
                         Reply("refine", workflow_id, step_name, 400, None)
                    /\ UNCHANGED heap
               ELSE /\ heap' = [heap EXCEPT ![ref] =
                                  refine_update(state, step_name, feedback)]
                    /\ response' =
                         Reply("refine", workflow_id, step_name, 200, feedback)
    /\ UNCHANGED <<clock, workflow_states, research_jobs, completed_reports,
                   gens>>

\* `if step_name != state.get_current_step_name(): raise HTTPException(400)`
skip_allowed(state, step_name) == step_name = get_current_step_name(state)

\* "Mark as skipped and move on"
skip_update(state, step_name) ==
    [state EXCEPT !.step_status = Put(@, step_name, "skipped"),
                  !.current_step = @ + 1,
                  !.awaiting_review = FALSE]

skip_step(workflow_id, step_name) ==
    /\ Requests < MaxRequests
    /\ calls' = calls + 1
    /\ IF workflow_id \notin DOMAIN workflow_states
       THEN /\ response' = Reply("skip", workflow_id, step_name, 404, None)
            /\ UNCHANGED heap
       ELSE LET ref == workflow_states[workflow_id]
                state == heap[ref]
            IN IF ~skip_allowed(state, step_name)
               THEN /\ response' =
                         Reply("skip", workflow_id, step_name, 400, None)
                    /\ UNCHANGED heap
               ELSE /\ heap' = [heap EXCEPT ![ref] =
                                  skip_update(state, step_name)]
                    /\ response' =
                         Reply("skip", workflow_id, step_name, 200, None)
    /\ UNCHANGED <<clock, workflow_states, research_jobs, completed_reports,
                   gens>>

\* "Mark workflow as cancelled", "Update current step status"
cancel_update(state) ==
    LET current_step == get_current_step_name(state)
        flagged == [state EXCEPT !.cancelled = TRUE,
                                 !.awaiting_review = FALSE]
    IN IF current_step # "completed"
       THEN [flagged EXCEPT !.step_status = Put(@, current_step, "cancelled")]
       ELSE flagged

\* faulty variant: no check that the workflow exists; the job record is
\* written for an unknown id
cancel_workflow_unchecked(workflow_id) ==
    /\ Requests < MaxRequests
    /\ calls' = calls + 1
    /\ heap' = IF workflow_id \in DOMAIN workflow_states
               THEN [heap EXCEPT ![workflow_states[workflow_id]] =
                                   cancel_update(@)]
               ELSE heap
    /\ research_jobs' = Put(research_jobs, workflow_id, "cancelled")
    /\ response' = Reply("cancel", workflow_id, "", 200, None)
    /\ UNCHANGED <<clock, workflow_states, completed_reports, gens>>

cancel_workflow(workflow_id) ==
    /\ Requests < MaxRequests
    /\ calls' = calls + 1
    /\ IF workflow_id \notin DOMAIN workflow_states
       THEN /\ response' = Reply("cancel", workflow_id, "", 404, None)
            /\ UNCHANGED <<heap, research_jobs>>
       ELSE LET ref == workflow_states[workflow_id]
            IN /\ heap' = [heap EXCEPT ![ref] = cancel_update(heap[ref])]
               /\ research_jobs' =
                    IF workflow_id \in DOMAIN research_jobs
                    THEN Put(research_jobs, workflow_id, "cancelled")
                    ELSE research_jobs
               /\ response' = Reply("cancel", workflow_id, "", 200, None)
    /\ UNCHANGED <<clock, workflow_states, completed_reports, gens>>

\* ------------------------------------------------------- specification
Init ==
    /\ clock = 0
    /\ heap = <<>>
    /\ workflow_states = EmptyMap
    /\ research_jobs = EmptyMap
    /\ completed_reports = EmptyMap
    /\ gens = <<>>
    /\ calls = 0
    /\ response = Reply("", None, "", None, None)

Generators == 1..Len(gens)

\* the callers have calls left
CallsLeft == Requests < MaxRequestsAll

\* callers that call any endpoint with any argument, MaxRequestsAll times
Next ==
    \/ \E now \in WorkflowIds, uploads \in Uploads,
          run_deep_research \in FormValues, run_data_room \in FormValues :
          /\ CallsLeft
          /\ start_workflow(now, uploads, run_deep_research, run_data_room)
    \/ \E id \in WorkflowIds :
          /\ CallsLeft
          /\ id \in DOMAIN workflow_states => Len(gens) < MaxStreamsAll
          /\ stream_workflow_step(id)
    \/ \E g \in Generators : gen_create_task(g)
    \/ \E g \in Generators : gen_receive(g)
    \/ \E g \in Generators : gen_timeout(g)
    \/ \E g \in Generators : gen_resume(g)
    \/ \E g \in Generators : task_start(g)
    \/ \E g \in Generators :
          gens[g].emitted < MaxFragsAll /\ stream_callback(g)
    \/ \E g \in Generators : \E report \in Results(g) : executor_return(g, report)
    \/ \E g \in Generators : executor_raise(g)
    \/ \E id \in WorkflowIds : CallsLeft /\ get_workflow_status(id)
    \/ \E id \in WorkflowIds, name \in StepArgs :
          CallsLeft /\ get_step_output(id, name)
    \/ \E id \in WorkflowIds : CallsLeft /\ continue_workflow(id)
    \/ \E id \in WorkflowIds, name \in StepArgs, feedback \in Feedbacks :
          CallsLeft /\ refine_step(id, name, feedback)
    \/ \E id \in WorkflowIds, name \in StepArgs :
          CallsLeft /\ skip_step(id, name)
    \/ \E id \in WorkflowIds : CallsLeft /\ cancel_workflow(id)

Spec == Init /\ [][Next]_vars

\* One workflow and one subscription to its stream, with the control
\* endpoints, and executor runs of up to MaxFrags fragments.
NextStream ==
    \/ \E uploads \in Uploads,
          run_deep_research \in FormValues, run_data_room \in FormValues :
          /\ CallsLeft
          /\ heap = <<>>
          /\ start_workflow(0, uploads, run_deep_research, run_data_room)
    \/ CallsLeft /\ gens = <<>> /\ stream_workflow_step(0)
    \/ \E g \in Generators : gen_create_task(g)
    \/ \E g \in Generators : gen_receive(g)
    \/ \E g \in Generators : gen_timeout(g)
    \/ \E g \in Generators : gen_resume(g)
    \/ \E g \in Generators : task_start(g)
    \/ \E g \in Generators : stream_callback(g)
    \/ \E g \in Generators : \E report \in Results(g) : executor_return(g, report)
    \/ \E g \in Generators : executor_raise(g)
    \/ CallsLeft /\ continue_workflow(0)
    \/ \E name \in StepArgs, feedback \in Feedbacks :
          CallsLeft /\ refine_step(0, name, feedback)
    \/ \E name \in StepArgs : CallsLeft /\ skip_step(0, name)
    \/ CallsLeft /\ cancel_workflow(0)

SpecStream == Init /\ [][NextStream]_vars

\* a step of the generator g: the server iterates the generator as long as
\* it yields, and wait_for returns an item or times out after 0.1 s
GenStep(g) ==
    /\ g \in Generators
    /\ \/ gen_create_task(g)
       \/ gen_receive(g)
       \/ gen_timeout(g)
       \/ gen_resume(g)

\* SpecStream where every generator keeps being resumed; nothing is assumed
\* of the executors, which may run for ever
SpecStreamFair ==
    Init /\ [][NextStream]_vars /\ \A g \in 1..MaxStreams : WF_vars(GenStep(g))

\* An operator who starts one workflow, subscribes to the stream of each
\* stage in turn and continues at every review gate, and never cancels,
\* refines or skips; every executor returns a report.
OperatorStep ==
    \/ \E uploads \in Uploads,
          run_deep_research \in FormValues, run_data_room \in FormValues :
          /\ heap = <<>>
          /\ start_workflow(0, uploads, run_deep_research, run_data_room)
    \/ /\ 0 \in DOMAIN workflow_states
       /\ ~heap[workflow_states[0]].awaiting_review
       /\ heap[workflow_states[0]].current_step
            < Len(heap[workflow_states[0]].steps)
       /\ \A g \in Generators : gens[g].pc = "closed"
       /\ stream_workflow_step(0)
    \/ /\ 0 \in DOMAIN workflow_states
       /\ heap[workflow_states[0]].awaiting_review
       /\ continue_workflow(0)

\* the task of generator g starts its executor, or the executor returns
WorkerStep(g) ==
    /\ g \in Generators
    /\ \/ task_start(g)
       \/ \E report \in Results(g) :
            Truthy(report) /\ executor_return(g, report)

NextOperator ==
    \/ OperatorStep
    \/ \E g \in Generators : gen_create_task(g)
    \/ \E g \in Generators : gen_receive(g)
    \/ \E g \in Generators : gen_timeout(g)
    \/ \E g \in Generators : gen_resume(g)
    \/ \E g \in Generators : task_start(g)
    \/ \E g \in Generators : stream_callback(g)
    \/ \E g \in Generators : \E report \in Results(g) :
          Truthy(report) /\ executor_return(g, report)

\* the operator keeps acting, the generators keep being resumed and every
\* executor that runs returns
SpecOperator ==
    /\ Init /\ [][NextOperator]_vars
    /\ WF_vars(OperatorStep)
    /\ \A g \in 1..MaxStreams : WF_vars(GenStep(g)) /\ WF_vars(WorkerStep(g))

\* ================================================================ claims
Objects == 1..Len(heap)

Known(workflow_id) == workflow_id \in DOMAIN workflow_states

\* the WorkflowState a workflow id names
StateOf(workflow_id) == heap[workflow_states[workflow_id]]

\* this step is a call of endpoint `op` (response' is its reply)
Called(op) == Requests' = Requests + 1 /\ response'.op = op

\* the event generator g yields in this step
Yields(g, kind) ==
    /\ Len(gens'[g].events) = Len(gens[g].events) + 1
    /\ gens'[g].events[Len(gens'[g].events)].event = kind

\* everything of the stores and generators but the reply and the call count
Untouched ==
    UNCHANGED <<clock, heap, workflow_states, research_jobs,
                completed_reports, gens>>

\* C1: once a workflow is cancelled no stage completion is accepted: no step
\* of the system adds or replaces an entry of its step_outputs or sets a
\* stage's status to completed.
C1_NoCompletionAfterCancel ==
    [][\A r \in Objects :
         heap[r].cancelled =>
           /\ \A n \in DOMAIN heap'[r].step_outputs :
                /\ n \in DOMAIN heap[r].step_outputs
                /\ heap'[r].step_outputs[n] = heap[r].step_outputs[n]
           /\ \A n \in DOMAIN heap'[r].step_status :
                heap'[r].step_status[n] = "completed" =>
                  /\ n \in DOMAIN heap[r].step_status
                  /\ heap[r].step_status[n] = "completed"]_vars

\* C2: no chunk event is yielded on a stream of a workflow whose cancelled
\* flag is set.
C2_NoChunkAfterCancel ==
    [][\A g \in Generators :
         Yields(g, "chunk") => ~heap[gens[g].state].cancelled]_vars

\* C3: a workflow never has two step executors running at once.
RunningExecutors(r) ==
    {g \in Generators : gens[g].state = r /\ gens[g].worker = "running"}

C3_OneExecutorPerWorkflow ==
    \A r \in Objects : Cardinality(RunningExecutors(r)) <= 1

\* C4: awaiting_review implies that current_step indexes a stage and that
\* this stage is completed.
C4_AwaitingReviewMeansCompleted ==
    \A r \in Objects :
      heap[r].awaiting_review =>
        /\ heap[r].current_step < Len(heap[r].steps)
        /\ heap[r].step_status[get_current_step_name(heap[r])] = "completed"

\* C5: a stage has a stored output if and only if its status is completed.
C5_OutputIffCompleted ==
    \A r \in Objects : \A n \in AllStepNames :
      n \in DOMAIN heap[r].step_outputs <=> heap[r].step_status[n] = "completed"

\* C6: continue on a known workflow that is not awaiting review is answered
\* with an error (400) and changes nothing of the workflow state.
C6_ContinueRejectedWhenNotAwaiting ==
    [][\A id \in WorkflowIds :
         (/\ Called("continue")
          /\ response'.workflow_id = id
          /\ Known(id)
          /\ ~StateOf(id).awaiting_review)
         => (response'.code = 400 /\ Untouched)]_vars

C6_Witness ==
    /\ response.op = "continue"
    /\ response.code = 400
    /\ Known(response.workflow_id)
    /\ ~StateOf(response.workflow_id).awaiting_review

\* C7: an accepted continue (awaiting_review true) adds exactly 1 to
\* current_step, clears awaiting_review and leaves steps, step_status and
\* step_outputs as they were.
C7_ContinueAdvancesByOne ==
    [][\A id \in WorkflowIds :
         (/\ Called("continue")
          /\ response'.workflow_id = id
          /\ Known(id)
          /\ StateOf(id).awaiting_review)
         => LET old == StateOf(id)
                new == heap'[workflow_states[id]]
            IN /\ response'.code = 200
               /\ new.current_step = old.current_step + 1
               /\ new.awaiting_review = FALSE
               /\ new.steps = old.steps
               /\ new.step_status = old.step_status
               /\ new.step_outputs = old.step_outputs]_vars

C7_Witness ==
    /\ response.op = "continue"
    /\ response.code = 200
    /\ StateOf(response.workflow_id).current_step = 1
    /\ ~StateOf(response.workflow_id).awaiting_review

\* C8: a workflow whose current_step equals len(steps) has, when it is not
\* cancelled, the job status completed and its outputs filed as the final
\* result; a cancelled workflow has the job status cancelled.
C8_EndOfStepsIsCompleted ==
    \A id \in DOMAIN workflow_states :
      LET state == StateOf(id)
      IN /\ (state.current_step = Len(state.steps) /\ ~state.cancelled) =>
              /\ research_jobs[id] = "completed"
              /\ id \in DOMAIN completed_reports
              /\ completed_reports[id] = final_outputs(state)
         /\ state.cancelled => research_jobs[id] = "cancelled"

\* C9: skip(S) of the stage S at current_step, whatever its status, leaves
\* S skipped with no stored output, awaiting_review false and current_step
\* advanced by exactly 1.
C9_SkipCurrentStage ==
    [][\A id \in WorkflowIds :
         (/\ Called("skip")
          /\ response'.workflow_id = id
          /\ Known(id)
          /\ StateOf(id).current_step < Len(StateOf(id).steps)
          /\ response'.step_name = get_current_step_name(StateOf(id)))
         => LET old == StateOf(id)
                new == heap'[workflow_states[id]]
                S == response'.step_name
            IN /\ new.step_status[S] = "skipped"
               /\ S \notin DOMAIN new.step_outputs
               /\ new.awaiting_review = FALSE
               /\ new.current_step = old.current_step + 1]_vars

\* C10: skip(S) where S is not the name of the stage at current_step is
\* answered with an error and changes nothing of the workflow state.
C10_SkipOtherStageRejected ==
    [][\A id \in WorkflowIds :
         (/\ Called("skip")
          /\ response'.workflow_id = id
          /\ Known(id)
          /\ \/ StateOf(id).current_step >= Len(StateOf(id).steps)
             \/ response'.step_name
                  # StateOf(id).steps[StateOf(id).current_step + 1])
         => (response'.code = 400 /\ Untouched)]_vars

\* the call names a stage other than the one at current_step
NotCurrentStage(id, step_name) ==
    \/ StateOf(id).current_step >= Len(StateOf(id).steps)
    \/ step_name # StateOf(id).steps[StateOf(id).current_step + 1]

\* C11: refine(S, feedback) where S is not the stage at current_step (an
\* earlier completed stage, a later pending stage, a stage pre-marked
\* skipped) is rejected with an error and leaves step_status, step_outputs
\* and awaiting_review as they were.
C11_RefineOtherStageRejected ==
    [][\A id \in WorkflowIds :
         (/\ Called("refine")
          /\ response'.workflow_id = id
          /\ Known(id)
          /\ NotCurrentStage(id, response'.step_name))
         => LET old == StateOf(id)
                new == heap'[workflow_states[id]]
            IN /\ response'.code = 400
               /\ new.step_status = old.step_status
               /\ new.step_outputs = old.step_outputs
               /\ new.awaiting_review = old.awaiting_review]_vars

\* C12: after an accepted refine(S, feedback) step_outputs has no entry for
\* S, step_status[S] is refining, awaiting_review is false, and
\* current_step and steps are as before.
C12_RefineEffect ==
    [][\A id \in WorkflowIds :
         (/\ Called("refine")
          /\ response'.workflow_id = id
          /\ response'.code = 200)
         => LET old == StateOf(id)
                new == heap'[workflow_states[id]]
                S == response'.step_name
            IN /\ S \notin DOMAIN new.step_outputs
               /\ new.step_status[S] = "refining"
               /\ new.awaiting_review = FALSE
               /\ new.current_step = old.current_step
               /\ new.steps = old.steps]_vars

\* the last event a generator has yielded
LastEvent(g) == gens[g].events[Len(gens[g].events)].event

\* a refine was accepted for a stage that a stream had completed before
C12_Witness ==
    /\ response.op = "refine"
    /\ response.code = 200
    /\ LET state == StateOf(response.workflow_id)
           S == response.step_name
       IN /\ state.step_status[S] = "refining"
          /\ S \notin DOMAIN state.step_outputs
          /\ S = get_current_step_name(state)
          /\ \E g \in Generators :
               /\ gens[g].state = workflow_states[response.workflow_id]
               /\ gens[g].step_name = S
               /\ LastEvent(g) = "step_complete"

\* the generator g returns in this step
Closes(g) == gens[g].pc # "closed" /\ gens'[g].pc = "closed"

\* C13: once the stage at current_step has been refined, a stream
\* subscription runs that same stage and leaves current_step alone; when the
\* executor of a run of the refined stage has returned a report (on a
\* workflow that is not cancelled) the run ends with the report stored for
\* the stage, its status completed and awaiting_review true.
C13_RefinedStageReruns ==
    [][/\ \A id \in WorkflowIds :
            (/\ Called("stream")
             /\ response'.workflow_id = id
             /\ Known(id)
             /\ StateOf(id).current_step < Len(StateOf(id).steps)
             /\ StateOf(id).step_status[get_current_step_name(StateOf(id))]
                  = "refining")
            => /\ Len(gens') = Len(gens) + 1
               /\ gens'[Len(gens')].state = workflow_states[id]
               /\ gens'[Len(gens')].step_name
                    = StateOf(id).steps[StateOf(id).current_step + 1]
               /\ heap' = heap
       /\ \A g \in Generators :
            LET r == gens[g].state
                S == gens[g].step_name
            IN (/\ Closes(g)
                /\ gens[g].output_task = "done"
                /\ Truthy(gens[g].result)
                /\ ~heap[r].cancelled
                /\ S \in AllStepNames
                /\ heap[r].step_status[S] = "refining")
               => /\ Yields(g, "step_complete")
                  /\ S \in DOMAIN heap'[r].step_outputs
                  /\ heap'[r].step_outputs[S] = gens[g].result
                  /\ heap'[r].step_status[S] = "completed"
                  /\ heap'[r].awaiting_review
                  /\ heap'[r].current_step = heap[r].current_step]_vars

\* a first stream completed the stage, the stage was refined, and the
\* executor of a second stream of the same stage has returned its report
C13_Witness ==
    \E g1, g2 \in Generators :
      LET r == gens[g2].state
          S == gens[g2].step_name
      IN /\ g1 < g2
         /\ gens[g1].state = r
         /\ gens[g1].step_name = S
         /\ gens[g1].pc = "closed"
         /\ LastEvent(g1) = "step_complete"
         /\ S = get_current_step_name(heap[r])
         /\ heap[r].step_status[S] = "refining"
         /\ S \notin DOMAIN heap[r].step_outputs
         /\ gens[g2].pc = "wait_for"
         /\ gens[g2].output_task = "done"
         /\ Truthy(gens[g2].result)

\* the executor of generator g is started in this step
Starts(g) == gens[g].worker = "idle" /\ gens'[g].worker = "running"

\* C14: an executor started for stage S right after an accepted
\* refine(S, feedback) is handed that feedback, and an executor started for
\* a stage that is still pending (never run, never refined) is handed none.
C14_FeedbackReachesExecutor ==
    [][\A g \in Generators :
         Starts(g) =>
           LET r == gens[g].state
               S == gens[g].step_name
           IN /\ (/\ response.op = "refine"
                  /\ response.code = 200
                  /\ workflow_states[response.workflow_id] = r
                  /\ response.step_name = S)
                 => gens'[g].feedback = response.body
              /\ heap[r].step_status[S] = "pending"
                 => gens'[g].feedback = None]_vars

\* C15: cancel of a known workflow is accepted in every state; right after
\* it cancelled is true and awaiting_review false; a stage in progress at
\* current_step has the status cancelled, and when no stage was in progress
\* (the stage at current_step completed and awaiting review, or current_step
\* past the end) no status is changed.
C15_CancelEffect ==
    [][\A id \in WorkflowIds :
         (/\ Called("cancel")
          /\ response'.workflow_id = id
          /\ Known(id))
         => LET old == StateOf(id)
                new == heap'[workflow_states[id]]
                current == get_current_step_name(old)
                in_progress ==
                    /\ old.current_step < Len(old.steps)
                    /\ ~old.awaiting_review
            IN /\ response'.code = 200
               /\ new.cancelled
               /\ ~new.awaiting_review
               /\ in_progress => new.step_status[current] = "cancelled"
               /\ ~in_progress => new.step_status = old.step_status]_vars

\* C16: when the executor of a run has raised, the run ends with an error
\* event and no step_complete, the stage's status is failed, awaiting_review
\* is left false and no output is stored.
C16_ExecutorRaises ==
    [][\A g \in Generators :
         LET r == gens[g].state
             S == gens[g].step_name
         IN (/\ Closes(g)
             /\ gens[g].output_task = "exception"
             /\ ~heap[r].cancelled)
            => /\ Yields(g, "error")
               /\ heap'[r].step_status[S] = "failed"
               /\ heap'[r].awaiting_review = heap[r].awaiting_review
               /\ heap'[r].step_outputs = heap[r].step_outputs]_vars

\* C17: the events of one subscription are a status event, then chunk
\* events only, then - once the generator has returned - exactly one
\* terminal event, step_complete or error, after which nothing follows.
C17_StreamShape ==
    \A g \in Generators :
      LET events == gens[g].events
          n == Len(events)
      IN /\ n >= 1
         /\ events[1].event = "status"
         /\ gens[g].pc = "closed" => n >= 2
         /\ \A i \in 2..n :
              IF i = n /\ gens[g].pc = "closed"
              THEN events[i].event \in {"step_complete", "error"}
              ELSE events[i].event = "chunk"

\* a stream cut off by cancel after two chunks
C17_Witness ==
    \E g \in Generators :
      /\ gens[g].pc = "closed"
      /\ heap[gens[g].state].cancelled
      /\ Len(gens[g].events) = 4
      /\ LastEvent(g) = "error"

\* the fragments 1..n as chunk events
Chunks(n) == [i \in 1..n |-> Event("chunk", i)]

\* C18: a run on a workflow that is not cancelled whose executor emitted the
\* fragments 1..n and returned ends with step_complete, and its events are
\* the status event, the n chunk events in the order of emission, and the
\* step_complete event; the sentinel is no chunk.
C18_FragmentsInOrder ==
    [][\A g \in Generators :
         (/\ Closes(g)
          /\ gens[g].output_task = "done"
          /\ ~heap[gens[g].state].cancelled)
         => gens'[g].events =
              <<Event("status", None)>> \o Chunks(gens[g].emitted)
              \o <<Event("step_complete", None)>>]_vars

\* a completed stream of two fragments
C18_Witness ==
    \E g \in Generators :
      /\ gens[g].pc = "closed"
      /\ ~heap[gens[g].state].cancelled
      /\ gens[g].events =
           <<Event("status", None)>> \o Chunks(MaxFrags)
           \o <<Event("step_complete", None)>>

\* C19: no step of the system changes the steps list of a WorkflowState or
\* lowers its current_step.
C19_StepsFixedCursorMonotone ==
    [][\A r \in Objects :
         /\ heap'[r].steps = heap[r].steps
         /\ heap'[r].current_step >= heap[r].current_step]_vars

\* a refine accepted on a workflow that continue or skip has advanced and
\* that a stream has run on
C19_Witness ==
    /\ response.op = "refine"
    /\ response.code = 200
    /\ LET r == workflow_states[response.workflow_id]
       IN /\ heap[r].current_step >= 1
          /\ heap[r].steps = <<"deep_research", "data_room", "risk_scanner",
                               "ic_memo">>
          /\ \E g \in Generators : gens[g].state = r

\* the names in a list of steps
Names(steps) == {steps[i] : i \in 1..Len(steps)}

\* C20: a start puts into steps exactly the selected stages whose
\* precondition is met (deep_research when selected, data_room when selected
\* and a file was kept, risk_scanner and ic_memo always), in pipeline order;
\* the others have the status skipped and the listed ones pending right
\* after creation; with deep_research selected and no file the steps are
\* deep_research, risk_scanner, ic_memo; and in every state an executor that
\* has been started runs a stage listed in the steps of its workflow.
C20_UnselectedStagesNeverRun ==
    [][/\ Called("start") =>
          \A uploads \in Uploads,
             run_deep_research \in FormValues, run_data_room \in FormValues :
            start_workflow(response'.workflow_id, uploads, run_deep_research,
                           run_data_room)
            => LET state == heap'[Len(heap')]
                   no_files == processed_files(uploads) = <<>>
                   left_out(name) ==
                       \/ name = "deep_research" /\ run_deep_research # "True"
                       \/ name = "data_room"
                            /\ (run_data_room # "True" \/ no_files)
               IN /\ \A name \in AllStepNames :
                       IF left_out(name)
                       THEN /\ name \notin Names(state.steps)
                            /\ state.step_status[name] = "skipped"
                       ELSE /\ name \in Names(state.steps)
                            /\ state.step_status[name] = "pending"
                  /\ \A i, j \in 1..Len(state.steps) :
                       i < j => \E a, b \in 1..Len(ALL_STEPS) :
                                  /\ a < b
                                  /\ ALL_STEPS[a] = state.steps[i]
                                  /\ ALL_STEPS[b] = state.steps[j]
                  /\ (no_files /\ run_deep_research = "True")
                       => state.steps
                            = <<"deep_research", "risk_scanner", "ic_memo">>
       /\ \A g \in DOMAIN gens' :
            gens'[g].worker # "idle"
            => gens'[g].step_name \in Names(heap'[gens'[g].state].steps)]_vars

\* on a workflow started without files the executor of risk_scanner has run
\* after deep_research, data_room still being marked skipped
C20_Witness ==
    \E g \in Generators :
      LET state == heap[gens[g].state]
      IN /\ state.steps = <<"deep_research", "risk_scanner", "ic_memo">>
         /\ state.step_status["data_room"] = "skipped"
         /\ state.current_step = 1
         /\ gens[g].step_name = "risk_scanner"
         /\ gens[g].worker = "finished"

\* C21: a start call yields an id that no workflow in the store has, and
\* leaves every id already in the store mapped to the WorkflowState it had.
C21_StartIdIsFresh ==
    [][Called("start") =>
         /\ ~Known(response'.workflow_id)
         /\ \A id \in DOMAIN workflow_states :
              /\ id \in DOMAIN workflow_states'
              /\ workflow_states'[id] = workflow_states[id]
              /\ heap'[workflow_states'[id]] = StateOf(id)]_vars

\* C22: output(id, S) on a known workflow is answered 404 with no value
\* when step_outputs has no entry for S and with the stored result when it
\* has one, and changes nothing of the stores and workflow states.
C22_OutputNotFound ==
    [][\A id \in WorkflowIds :
         (/\ Called("output")
          /\ response'.workflow_id = id
          /\ Known(id))
         => LET state == StateOf(id)
                S == response'.step_name
            IN /\ Untouched
               /\ IF S \in DOMAIN state.step_outputs
                  THEN /\ response'.code = 200
                       /\ response'.body = state.step_outputs[S]
                  ELSE /\ response'.code = 404
                       /\ response'.body = None]_vars

\* the output of a stage that a stream completed and a refine discarded is
\* asked for
C22_Witness ==
    /\ response.op = "output"
    /\ response.code = 404
    /\ Known(response.workflow_id)
    /\ LET r == workflow_states[response.workflow_id]
           S == response.step_name
       IN /\ S \in AllStepNames
          /\ heap[r].step_status[S] = "refining"
          /\ \E g \in Generators :
               /\ gens[g].state = r
               /\ gens[g].step_name = S
               /\ gens[g].pc = "closed"
               /\ LastEvent(g) = "step_complete"

\* the endpoints that take the id of an existing workflow
OpsOnWorkflow ==
    {"stream", "status", "output", "continue", "refine", "skip", "cancel"}

\* C23: stream, status, output, continue, refine, skip and cancel called
\* with an id that is not in the store are answered 404, add no entry to
\* any store and change no workflow state.
C23_UnknownIdNotFound ==
    [][\A op \in OpsOnWorkflow :
         (Called(op) /\ ~Known(response'.workflow_id))
         => (response'.code = 404 /\ Untouched)]_vars

\* cancel of an id that is not in the store, beside a workflow that is
C23_Witness ==
    /\ response.op = "cancel"
    /\ response.code = 404
    /\ ~Known(response.workflow_id)
    /\ workflow_states # EmptyMap
    /\ response.workflow_id \notin DOMAIN research_jobs

\* C24: every step_complete event is published in a state where the stage
\* of the run is completed and awaiting_review is true; when the executor
\* of the run has returned on a workflow that is not cancelled, whatever it
\* returned is then stored as the stage's output.
C24_StepCompleteMeansStored ==
    [][\A g \in Generators :
         Yields(g, "step_complete") =>
           LET r == gens[g].state
               S == gens[g].step_name
           IN /\ heap'[r].awaiting_review
              /\ S \in AllStepNames
              /\ heap'[r].step_status[S] = "completed"
              /\ (gens[g].output_task = "done" /\ ~heap[r].cancelled)
                   => /\ S \in DOMAIN heap'[r].step_outputs
                      /\ heap'[r].step_outputs[S] = gens[g].result]_vars

\* C25: an executor is started only for the stage at current_step of its
\* workflow and only while that stage is pending or refining: none is
\* started for a stage that is completed and awaiting review.
C25_ExecutorStartsOnlyWhenDue ==
    [][\A g \in Generators :
         Starts(g) =>
           LET state == heap[gens[g].state]
               S == gens[g].step_name
           IN /\ S = get_current_step_name(state)
              /\ state.step_status[S] \in {"pending", "refining"}]_vars

\* the changes of a stage's status the state machine allows
StatusEdges ==
    {<<"pending", "running">>, <<"running", "completed">>,
     <<"running", "failed">>, <<"completed", "refining">>,
     <<"refining", "running">>, <<"pending", "skipped">>}
    \cup {<<s, "cancelled">> : s \in {"pending", "running", "refining"}}

\* C26: every change of a stage's step_status is one of the allowed edges,
\* and a stage whose executor is started has the status running.
C26_StatusTransitions ==
    [][/\ \A r \in Objects : \A n \in AllStepNames :
            heap'[r].step_status[n] # heap[r].step_status[n]
            => <<heap[r].step_status[n], heap'[r].step_status[n]>>
                 \in StatusEdges
       /\ \A g \in Generators :
            Starts(g) =>
              heap'[gens[g].state].step_status[gens[g].step_name]
                = "running"]_vars

\* C27: in every state 0 <= current_step <= len(steps) and the keys of
\* step_status are exactly the four stage names.
C27_CursorInBounds ==
    \A r \in Objects :
      /\ 0 <= heap[r].current_step
      /\ heap[r].current_step <= Len(heap[r].steps)
      /\ DOMAIN heap[r].step_status = AllStepNames

\* C28: a stream that is open on a cancelled workflow eventually ends,
\* whatever its executor does, and the end of a stream leaves the executor's
\* thread as it is.
C28_CancelEndsStream ==
    /\ \A g \in 1..MaxStreams :
         (/\ g \in Generators
          /\ gens[g].pc # "closed"
          /\ heap[gens[g].state].cancelled)
         ~> (g \in Generators /\ gens[g].pc = "closed")
    /\ [][\A g \in Generators :
            Closes(g) => gens'[g].worker = gens[g].worker]_vars

\* cancel has ended a stream whose executor is still running
C28_Witness ==
    \E g \in Generators :
      /\ gens[g].pc = "closed"
      /\ LastEvent(g) = "error"
      /\ heap[gens[g].state].cancelled
      /\ gens[g].worker = "running"

\* C29: with an operator who subscribes to each stage and continues at
\* every review gate, executors that all return a report and no cancel, the
\* stage at every position of steps comes to be completed and awaiting
\* review while the cursor is on it, and the workflow reaches
\* current_step = len(steps) with the job status completed and its outputs
\* filed.
C29_RunsToCompletion ==
    /\ \A i \in 0..(Len(ALL_STEPS) - 1) :
         (/\ Known(0)
          /\ StateOf(0).current_step = i
          /\ i < Len(StateOf(0).steps))
         ~> (/\ Known(0)
             /\ StateOf(0).current_step = i
             /\ StateOf(0).awaiting_review
             /\ StateOf(0).step_status[StateOf(0).steps[i + 1]] = "completed")
    /\ <>(/\ Known(0)
          /\ StateOf(0).current_step = Len(StateOf(0).steps)
          /\ research_jobs[0] = "completed"
          /\ 0 \in DOMAIN completed_reports)

\* a workflow of all four stages has been run to its end
C29_Witness ==
    /\ Known(0)
    /\ StateOf(0).steps = ALL_STEPS
    /\ StateOf(0).current_step = Len(ALL_STEPS)
    /\ research_jobs[0] = "completed"
    /\ \A n \in AllStepNames :
         /\ StateOf(0).step_status[n] = "completed"
         /\ completed_reports[0][n] = StateOf(0).step_outputs[n]

\* the stages before `step_name` in the pipeline order
Preceding(step_name) ==
    {ALL_STEPS[j] : j \in {k \in 1..Len(ALL_STEPS) :
                             \E i \in 1..Len(ALL_STEPS) :
                               ALL_STEPS[i] = step_name /\ k < i}}

\* C30: an executor is handed outputs of stages that precede its own in the
\* pipeline order only (deep_research none, risk_scanner those of
\* deep_research and data_room, ic_memo those and that of risk_scanner),
\* each as stored when the executor is started, and empty when the stage
\* has no stored output.
C30_ExecutorInputs ==
    [][\A g \in Generators :
         Starts(g) =>
           LET state == heap[gens[g].state]
               S == gens[g].step_name
               handed == gens'[g].inputs
           IN /\ DOMAIN handed \subseteq Preceding(S)
              /\ S = "deep_research" => DOMAIN handed = {}
              /\ S = "risk_scanner"
                   => DOMAIN handed = {"deep_research", "data_room"}
              /\ S = "ic_memo"
                   => DOMAIN handed
                        = {"deep_research", "data_room", "risk_scanner"}
              /\ \A n \in DOMAIN handed :
                   handed[n] = IF n \in DOMAIN state.step_outputs
                               THEN state.step_outputs[n]
                               ELSE EmptyResult]_vars

\* the executor of ic_memo runs with the stored output of risk_scanner and
\* an empty deep_research
C30_Witness ==
    \E g \in Generators :
      /\ gens[g].worker = "running"
      /\ gens[g].step_name = "ic_memo"
      /\ DOMAIN gens[g].inputs = {"deep_research", "data_room", "risk_scanner"}
      /\ Truthy(gens[g].inputs["risk_scanner"])
      /\ gens[g].inputs["deep_research"] = EmptyResult

====
